---- MODULE Spec2Model ----
(***************************************************************************)
(* Model of the ProScrape backend (src/scrape.py): the job table and the   *)
(* results table, the job queue, the request handler that creates jobs,    *)
(* and the single ScrapingWorker thread: run, process_job, scrape_url with *)
(* its safety gate and its crawl loop.                                     *)
(***************************************************************************)
EXTENDS Integers, Sequences, FiniteSets, TLC

\* ------------------------------------------------------------------ bounds
MaxJobs == 2          \* jobs created in one behaviour
MaxPages == 2         \* largest max_pages a request supplies
MaxLinks == 2         \* longest list of hrefs one fetched page offers
MaxRecords == 1       \* most records one page's extraction yields
MaxStoreFaults == 1   \* most statements or commits that raise in one behaviour

MaxCols == 2          \* most cells in one table row
MaxRows == 1          \* most rows in one table, its header row apart
MaxContainers == 3    \* most elements the container selector matches
MaxMatches == 2       \* most elements a field selector matches in the document
MaxTables == 1        \* most table elements on a page in auto mode
MaxCards == 5         \* most like elements on a page in auto mode

JobIds == 1..MaxJobs

\* ------------------------------------------------------------------- URLs
\* urlparse is modelled by tables over a small universe of URLs.
Urls ==
    {"http://a.com/", "http://a.com/p2", "http://a.com/p3",
     "http://b.com/", "http://:80/"}

\* The requests clients submit: url and max_pages. Each url has a scheme and
\* a non-empty netloc, which is all create_scrape_job asks for; a max_pages
\* of 0 is one that process_job's "or 1" replaces.
Requests ==
    {[url |-> "http://a.com/", max_pages |-> mp] : mp \in {0, MaxPages}} \cup
    {[url |-> "http://:80/", max_pages |-> 0]}

\* URLs a page's anchors can resolve to (urljoin of the href); a page can
\* link to itself and to pages already fetched.
LinkUrls == Urls \ {"http://:80/"}

\* The hrefs of a page whose pagination container holds more anchors than
\* find_pagination_links returns, all of the seed's host.
PagerHrefs ==
    <<"http://a.com/p2", "http://a.com/p3", "http://a.com/p4",
      "http://a.com/p5", "http://a.com/p6", "http://a.com/p7">>

Netloc(u) ==
    CASE u = "http://a.com/" -> "a.com"
      [] u = "http://a.com/p2" -> "a.com"
      [] u = "http://a.com/p3" -> "a.com"
      [] \E i \in DOMAIN PagerHrefs : u = PagerHrefs[i] -> "a.com"
      [] u = "http://b.com/" -> "b.com"
      [] OTHER -> ":80"

\* urlparse(u).hostname; "" stands for None.
Hostname(u) ==
    CASE Netloc(u) = "a.com" -> "a.com"
      [] Netloc(u) = "b.com" -> "b.com"
      [] OTHER -> ""

\* ------------------------------------------------------------ safety gate
\* What socket.gethostbyname can do for a hostname: fail, or give an address.
Addresses == {"8.8.8.8", "10.0.0.1", "127.0.0.1", "169.254.1.1"}
Resolutions == {"fail"} \cup Addresses

\* ipaddress.ip_address(ip).is_private / is_loopback / is_link_local
is_private(ip) == ip \in {"10.0.0.1", "127.0.0.1", "169.254.1.1"}
is_loopback(ip) == ip = "127.0.0.1"
is_link_local(ip) == ip = "169.254.1.1"

\* What retrieving and evaluating robots.txt can do.
RobotsOutcomes == {"allows", "disallows", "unreadable"}

\* rp.read(); rp.can_fetch(...); except: return True
check_robots(policy) ==
    IF policy = "unreadable" THEN TRUE ELSE policy = "allows"

\* as is_safe_url, with a failed resolution let through
is_safe_url_open(seed, res) ==
    IF Hostname(seed) = "" THEN FALSE
    ELSE IF res = "fail" THEN TRUE
    ELSE ~(is_private(res) \/ is_loopback(res) \/ is_link_local(res))

\* hostname missing: False; gethostbyname raises: False; else the address test
is_safe_url(seed, res) ==
    IF Hostname(seed) = "" THEN FALSE
    ELSE IF res = "fail" THEN FALSE
    ELSE ~(is_private(res) \/ is_loopback(res) \/ is_link_local(res))

RobotsMsg == "Robots.txt disallows scraping this URL"
UnsafeMsg == "URL points to a private or local IP address"
NoDataMsg == "No data extracted"
StoreMsg == "database is locked"
ScrapingFailed(m) == "Scraping failed: " \o m

\* -------------------------------------------------------------- sequences
Range(s) == {s[i] : i \in DOMAIN s}

Take(s, n) == SubSeq(s, 1, IF Len(s) < n THEN Len(s) ELSE n)

\* all sequences over S of length at most n
SeqsUpTo(S, n) == UNION {[1..k -> S] : k \in 0..n}

\* ------------------------------------------------------------- pagination
PaginationCap == 5

RECURSIVE SameNetloc(_, _)
\* the resolved hrefs whose netloc equals the current page's, in order
SameNetloc(hrefs, current_url) ==
    IF hrefs = <<>> THEN <<>>
    ELSE IF Netloc(Head(hrefs)) = Netloc(current_url)
         THEN <<Head(hrefs)>> \o SameNetloc(Tail(hrefs), current_url)
         ELSE SameNetloc(Tail(hrefs), current_url)

\* as find_pagination_links, without the slice
find_pagination_links_uncapped(hrefs, current_url) ==
    SameNetloc(hrefs, current_url)

find_pagination_links_any_host(hrefs, current_url) ==
    Take(hrefs, PaginationCap)

\* hrefs: the anchors' hrefs after urljoin, in document order
find_pagination_links(hrefs, current_url) ==
    Take(SameNetloc(hrefs, current_url), PaginationCap)

\* as AppendNew, without the two membership tests
AppendAll(to_visit, visited, links) == to_visit \o links

RECURSIVE AppendNew(_, _, _)
\* for link in next_links: append it unless visited or already queued
AppendNew(to_visit, visited, links) ==
    IF links = <<>> THEN to_visit
    ELSE IF Head(links) \notin visited /\ Head(links) \notin Range(to_visit)
         THEN AppendNew(Append(to_visit, Head(links)), visited, Tail(links))
         ELSE AppendNew(to_visit, visited, Tail(links))

MarkVisitedForgets(visited, current_url) == visited

\* visited_urls.add(current_url)
MarkVisited(visited, current_url) == visited \cup {current_url}

LoopGuardInclusive(to_visit, pages, budget) ==
    to_visit # <<>> /\ pages <= budget

\* while urls_to_visit and pages_scraped < max_pages
LoopGuard(to_visit, pages, budget) ==
    to_visit # <<>> /\ pages < budget

DiscoveryGuardInclusive(pages, budget) == pages <= budget

\* if pages_scraped < max_pages: (after pages_scraped += 1)
DiscoveryGuard(pages, budget) == pages < budget

\* n copies of the record source u
RECURSIVE Records(_, _)
Records(u, n) == IF n = 0 THEN <<>> ELSE <<u>> \o Records(u, n - 1)

\* ------------------------------------------------------------------ state
VARIABLES
    jobs,            \* jobs table, committed: id -> row (status "none": no row)
    results,         \* results table, committed: job id -> rows, each row kept
                     \* as whether its data holds any record
    api_pending,     \* job ids whose row is committed and whose put is still to come
    job_args,        \* jobs table, committed: job id -> the url and max_pages
                     \* columns, kept until process_job has run its SELECT
                     \* (nothing writes or reads them after that)
    job_queue,       \* queue.Queue of job ids
    store_faults,    \* how many more statements or commits of the store can raise
    pc,              \* where the worker thread is
    job_id,          \* process_job: the id being processed (0: not in process_job)
    txn,             \* process_job: what conn has executed and not committed
    exc,             \* the message of the exception process_job caught ("" if none)
    url,             \* scrape_url: the seed
    max_pages,       \* scrape_url: the page budget
    resolved,        \* what gethostbyname gave for this job's seed
    robots,          \* what check_robots returned for this job's seed
    safe,            \* what is_safe_url returned for this job's seed
    all_results,     \* scrape_url: records so far (each named by its page)
    visited_urls,    \* scrape_url
    urls_to_visit,   \* scrape_url
    pages_scraped,   \* scrape_url
    fetched,         \* log: the URLs requests.get was called with, this crawl
    fetch_failed,    \* log: the URLs whose iteration raised before being counted
    discoveries,     \* log: how often this crawl called find_pagination_links
    advertised,      \* log: whether a page of this crawl offered a link that
                     \* find_pagination_links keeps
    hist,            \* log: job id -> the status values committed for it, in order
    raised,          \* log: the job ids whose process_job raised into run
    call,            \* an extraction function called on its own: name and argument
    ret              \* what that call returned

crawl == <<url, max_pages, robots, resolved, safe, all_results,
           visited_urls, urls_to_visit, pages_scraped, fetched, fetch_failed,
           discoveries, advertised>>
store == <<jobs, results, hist>>
vars == <<jobs, results, job_args, api_pending, job_queue, store_faults, pc,
          job_id, txn,
          exc, url, max_pages, robots, resolved, safe, all_results,
          visited_urls, urls_to_visit, pages_scraped, fetched, fetch_failed,
          discoveries, advertised, hist, raised, call, ret>>
extraction == <<call, ret>>

NoRow == [status |-> "none", error_message |-> ""]
NoArgs == [url |-> "", max_pages |-> 0]
NoTxn == [status |-> "none", error_message |-> "", has_results |-> FALSE,
          results |-> FALSE]

\* A statement or a commit either succeeds or raises; a raise leaves the
\* open transaction as it was ("keep") or rolls it back ("rollback").
NoFault == [at |-> "none", kind |-> "keep"]
FaultsAfter(f) == IF f.at = "none" THEN store_faults ELSE store_faults - 1
Faults(steps) ==
    {NoFault} \cup
    (IF store_faults > 0
     THEN {[at |-> st, kind |-> k] : st \in steps, k \in {"keep", "rollback"}}
     ELSE {})

NoCall == [fn |-> "none"]
NoRet == [done |-> FALSE, value |-> <<>>]

InitServer ==
    /\ jobs = [j \in JobIds |-> NoRow]
    /\ results = [j \in JobIds |-> <<>>]
    /\ job_args = [j \in JobIds |-> NoArgs]
    /\ api_pending = {}
    /\ job_queue = <<>>
    /\ pc = "idle"
    /\ job_id = 0
    /\ txn = NoTxn
    /\ exc = ""
    /\ url = ""
    /\ max_pages = 1
    /\ resolved = "unasked"
    /\ robots = "unchecked"
    /\ safe = "unchecked"
    /\ all_results = <<>>
    /\ visited_urls = {}
    /\ urls_to_visit = <<>>
    /\ pages_scraped = 0
    /\ fetched = <<>>
    /\ fetch_failed = {}
    /\ discoveries = 0
    /\ advertised = FALSE
    /\ hist = [j \in JobIds |-> <<>>]
    /\ raised = {}

InitCommon == InitServer /\ call = NoCall /\ ret = NoRet

Init == InitCommon /\ store_faults = 0
InitStoreFaults == InitCommon /\ store_faults = MaxStoreFaults

\* ------------------------------------------------------- create_scrape_job
\* INSERT INTO jobs ...; conn.commit()   (status defaults to 'queued')
CreateScrapeJob(j, u, mp) ==
    /\ jobs[j].status = "none"
    /\ \A k \in 1..(j - 1) : jobs[k].status # "none"
    /\ jobs' = [jobs EXCEPT ![j] = [status |-> "queued", error_message |-> ""]]
    /\ job_args' = [job_args EXCEPT ![j] = [url |-> u, max_pages |-> mp]]
    /\ hist' = [hist EXCEPT ![j] = <<"queued">>]
    /\ api_pending' = api_pending \cup {j}
    /\ UNCHANGED <<results, job_queue, store_faults, pc, job_id, txn, exc,
                   crawl, raised>>
    /\ UNCHANGED extraction

\* job_queue.put(job_id)
EnqueueJob(j) ==
    /\ j \in api_pending
    /\ api_pending' = api_pending \ {j}
    /\ job_queue' = Append(job_queue, j)
    /\ UNCHANGED <<store, job_args, store_faults, pc, job_id, txn, exc, crawl,
                   raised>>
    /\ UNCHANGED extraction

\* ------------------------------------------------------------------ store
CommitJobsStatusOnly(j, t) ==
    IF t.status = "none" \/ jobs[j].status = "none" THEN jobs
    ELSE [jobs EXCEPT ![j].status = t.status]

\* conn.commit() of the transaction t that process_job holds for job j
CommitJobs(j, t) ==
    IF t.status = "none" \/ jobs[j].status = "none" THEN jobs
    ELSE [jobs EXCEPT ![j].status = t.status,
                      ![j].error_message =
                          IF t.error_message = "" THEN @ ELSE t.error_message]

CommitResults(j, t) ==
    IF t.has_results THEN [results EXCEPT ![j] = Append(@, t.results)]
    ELSE results

CommitHist(j, t) ==
    IF t.status = "none" \/ jobs[j].status = "none" THEN hist
    ELSE [hist EXCEPT ![j] = Append(@, t.status)]

\* process_job is left: its locals, and those of scrape_url, are gone
ReturnFromJob ==
    /\ job_id' = 0
    /\ exc' = ""
    /\ txn' = NoTxn
    /\ url' = ""
    /\ max_pages' = 1
    /\ resolved' = "unasked"
    /\ robots' = "unchecked"
    /\ safe' = "unchecked"
    /\ all_results' = <<>>
    /\ visited_urls' = {}
    /\ urls_to_visit' = <<>>
    /\ pages_scraped' = 0
    /\ fetched' = <<>>
    /\ fetch_failed' = {}
    /\ discoveries' = 0
    /\ advertised' = FALSE

\* what is left of the open transaction t after a statement or commit raised
AfterRaise(f, t) == IF f.kind = "keep" THEN t ELSE NoTxn

\* ------------------------------------------------------- ScrapingWorker.run
RunAfterErrorExits == "dead"

\* except Exception as e: print(...)  -- the while loop goes on
RunAfterError == "idle"

NextJobNewest(q) == q[Len(q)]

\* job_queue.get(timeout=1): queue.Queue hands out the oldest entry
NextJob(q) == Head(q)

DequeueLeavesId(q) == q

\* job_queue.get(timeout=1): what is left in the queue
Dequeue(q) == Tail(q)

PcAfterDenialGoesOn == "crawl"

\* scrape_url: raise Exception(...) when a check denies; the outer handler
\* re-raises and process_job's handler takes over
PcAfterDenial == "except"

PcAfterPageErrorAborts == "except"

\* scrape_url, inner handler: except Exception as e: print(...); continue
PcAfterPageError == "crawl"

\* ----------------------------------------------------------- process_job
\* run: job_queue.get; process_job: SELECT, UPDATE status='running', commit
ProcessJobStart ==
    /\ pc = "idle"
    /\ job_queue # <<>>
    /\ LET id == NextJob(job_queue) IN
       /\ job_queue' = Dequeue(job_queue)
       /\ \E f \in Faults({"select", "update_running", "commit_running"}) :
            /\ store_faults' = FaultsAfter(f)
            /\ CASE f.at \in {"select", "update_running"} ->
                   /\ pc' = "except"
                   /\ job_id' = id
                   /\ exc' = StoreMsg
                   /\ txn' = NoTxn
                   /\ job_args' = [job_args EXCEPT ![id] = NoArgs]
                   /\ UNCHANGED <<store, url, max_pages>>
              [] f.at = "commit_running" ->
                   /\ pc' = "except"
                   /\ job_id' = id
                   /\ exc' = StoreMsg
                   /\ txn' = AfterRaise(f, [NoTxn EXCEPT !.status = "running"])
                   /\ job_args' = [job_args EXCEPT ![id] = NoArgs]
                   /\ UNCHANGED <<store, url, max_pages>>
              [] OTHER ->
                   IF jobs[id].status = "none"
                   THEN /\ pc' = "idle"
                        /\ UNCHANGED <<store, job_args, job_id, url, max_pages,
                                       exc, txn>>
                   ELSE /\ pc' = "gate"
                        /\ job_id' = id
                        /\ jobs' = [jobs EXCEPT ![id].status = "running"]
                        /\ hist' = [hist EXCEPT ![id] = Append(@, "running")]
                        /\ url' = job_args[id].url
                        /\ max_pages' = IF job_args[id].max_pages = 0 THEN 1
                                        ELSE job_args[id].max_pages
                        /\ job_args' = [job_args EXCEPT ![id] = NoArgs]
                        /\ UNCHANGED <<results, exc, txn>>
    /\ UNCHANGED <<api_pending, raised, resolved,
                   robots, safe, all_results, visited_urls, urls_to_visit,
                   pages_scraped, fetched, fetch_failed, discoveries,
                   advertised>>
    /\ UNCHANGED extraction

\* scrape_url: check_robots, is_safe_url, then the crawl state is set up
ScrapeUrlGate ==
    /\ pc = "gate"
    /\ \E policy \in RobotsOutcomes, res \in Resolutions :
         IF ~check_robots(policy)
         THEN /\ robots' = "deny"
              /\ resolved' = "unasked"
              /\ safe' = "unchecked"
              /\ exc' = ScrapingFailed(RobotsMsg)
              /\ pc' = PcAfterDenial
              /\ urls_to_visit' = IF PcAfterDenial = "crawl" THEN <<url>> ELSE <<>>
         ELSE /\ robots' = "allow"
              /\ resolved' = IF Hostname(url) = "" THEN "unasked" ELSE res
              /\ IF is_safe_url(url, res)
                 THEN /\ safe' = "allow"
                      /\ urls_to_visit' = <<url>>
                      /\ pc' = "crawl"
                      /\ UNCHANGED exc
                 ELSE /\ safe' = "deny"
                      /\ exc' = ScrapingFailed(UnsafeMsg)
                      /\ pc' = PcAfterDenial
                      /\ urls_to_visit' =
                            IF PcAfterDenial = "crawl" THEN <<url>> ELSE <<>>
    /\ UNCHANGED <<store, job_args, api_pending, job_queue, store_faults, job_id,
                   txn,
                   url, max_pages, all_results, visited_urls, pages_scraped,
                   fetched, fetch_failed, discoveries, advertised, raised>>
    /\ UNCHANGED extraction

\* ------------------------------------------------------------- crawl loop
\* What one iteration can meet: the GET, the parse or the extraction raises,
\* or the page yields n records and offers the resolved hrefs.
Pages ==
    {[ok |-> FALSE, n |-> 0, hrefs |-> <<>>]} \cup
    {[ok |-> TRUE, n |-> k, hrefs |-> h] :
        k \in 0..MaxRecords, h \in SeqsUpTo(LinkUrls, MaxLinks)}

\* The same for a site whose pages carry the pagination container or no link.
PagerPages ==
    {[ok |-> FALSE, n |-> 0, hrefs |-> <<>>]} \cup
    {[ok |-> TRUE, n |-> k, hrefs |-> h] :
        k \in 0..MaxRecords, h \in {<<>>, PagerHrefs}}

\* one iteration of the while loop of scrape_url, on a site made of pages
CrawlStepOn(pages) ==
    /\ pc = "crawl"
    /\ LoopGuard(urls_to_visit, pages_scraped, max_pages)
    /\ LET current_url == Head(urls_to_visit)
           rest == Tail(urls_to_visit)
       IN
       IF current_url \in visited_urls
       THEN /\ urls_to_visit' = rest
            /\ pc' = "crawl"
            /\ UNCHANGED <<all_results, visited_urls, pages_scraped, fetched,
                           fetch_failed, discoveries, advertised>>
       ELSE /\ visited_urls' = MarkVisited(visited_urls, current_url)
            /\ fetched' = Append(fetched, current_url)
            /\ \E page \in pages :
                 IF ~page.ok
                 THEN /\ fetch_failed' = fetch_failed \cup {current_url}
                      /\ urls_to_visit' = rest
                      /\ pc' = PcAfterPageError
                      /\ UNCHANGED <<all_results, pages_scraped, discoveries,
                                     advertised>>
                 ELSE /\ all_results' = all_results \o Records(current_url, page.n)
                      /\ pages_scraped' = pages_scraped + 1
                      /\ pc' = "crawl"
                      /\ UNCHANGED fetch_failed
                      /\ advertised' =
                            (advertised \/
                             find_pagination_links(page.hrefs, current_url) # <<>>)
                      /\ IF DiscoveryGuard(pages_scraped + 1, max_pages)
                         THEN LET next_links ==
                                      find_pagination_links(page.hrefs, current_url)
                              IN /\ urls_to_visit' =
                                     AppendNew(rest, visited_urls', next_links)
                                 /\ discoveries' = discoveries + 1
                         ELSE /\ urls_to_visit' = rest
                              /\ UNCHANGED discoveries
    /\ UNCHANGED <<store, job_args, api_pending, job_queue, store_faults, job_id,
                   txn, exc, url, max_pages, robots, resolved, safe,
                   raised>>
    /\ UNCHANGED extraction

CrawlStep == CrawlStepOn(Pages)

CrawlStepPager == CrawlStepOn(PagerPages)

\* scrape_url returns all_results; process_job stores the outcome and commits
CrawlReturn ==
    /\ pc = "crawl"
    /\ ~LoopGuard(urls_to_visit, pages_scraped, max_pages)
    /\ LET steps == IF all_results # <<>>
                    THEN {"insert_results", "update_completed", "commit"}
                    ELSE {"update_failed", "commit"}
           inserted == [NoTxn EXCEPT !.has_results = TRUE,
                                     !.results = (all_results # <<>>)]
           updated == IF all_results # <<>>
                      THEN [inserted EXCEPT !.status = "completed"]
                      ELSE [NoTxn EXCEPT !.status = "failed",
                                         !.error_message = NoDataMsg]
       IN
       \E f \in Faults(steps) :
          /\ store_faults' = FaultsAfter(f)
          /\ IF f.at = "none"
             THEN /\ pc' = "idle"
                  /\ jobs' = CommitJobs(job_id, updated)
                  /\ results' = CommitResults(job_id, updated)
                  /\ hist' = CommitHist(job_id, updated)
                  /\ ReturnFromJob
             ELSE /\ pc' = "except"
                  /\ exc' = StoreMsg
                  /\ txn' = CASE f.at = "update_completed" -> AfterRaise(f, inserted)
                              [] f.at = "commit" -> AfterRaise(f, updated)
                              [] OTHER -> NoTxn
                  /\ UNCHANGED <<store, crawl, job_id>>
    /\ UNCHANGED <<job_args, api_pending, job_queue, raised>>
    /\ UNCHANGED extraction

\* except Exception as e: UPDATE status='failed', error_message=str(e); commit
\* finally: conn.close().  When the handler raises, run catches it.
ExceptHandler ==
    /\ pc = "except"
    /\ \E f \in Faults({"update_failed", "commit"}) :
         /\ store_faults' = FaultsAfter(f)
         /\ LET updated == [txn EXCEPT !.status = "failed",
                                       !.error_message = exc]
            IN IF f.at = "none"
               THEN /\ pc' = "idle"
                    /\ jobs' = CommitJobs(job_id, updated)
                    /\ results' = CommitResults(job_id, updated)
                    /\ hist' = CommitHist(job_id, updated)
                    /\ UNCHANGED raised
               ELSE /\ pc' = RunAfterError
                    /\ raised' = raised \cup {job_id}
                    /\ UNCHANGED store
    /\ ReturnFromJob
    /\ UNCHANGED <<job_args, api_pending, job_queue>>
    /\ UNCHANGED extraction

\* ------------------------------------------------------ extract_table_data
\* The text of a cell, as get_text(strip=True) gives it.
Texts == {"", "a"}

\* A table element: its thead (absent, or present with the cells of its one
\* row), whether its rows sit in a tbody, and its rows outside the thead, each
\* the texts of its td/th cells.
TableRows == SeqsUpTo(Texts, MaxCols)
Tables ==
    {[thead |-> h, tbody |-> b, rows |-> r] :
        h \in {[present |-> FALSE, cells |-> <<>>]} \cup
              {[present |-> TRUE, cells |-> c] : c \in TableRows},
        b \in BOOLEAN,
        r \in SeqsUpTo(TableRows, MaxRows)}

\* header_row = table.find('thead'); else the cells of table.find('tr')
TableHeaders(t) ==
    IF t.thead.present THEN t.thead.cells
    ELSE IF t.rows # <<>> THEN t.rows[1]
    ELSE <<>>

\* tbody = table.find('tbody') or table; rows = tbody.find_all('tr')
TableRowsSearched(t) ==
    IF t.tbody THEN t.rows
    ELSE IF t.thead.present THEN <<t.thead.cells>> \o t.rows
    ELSE t.rows

\* row_data[header] = cells[i].get_text(strip=True), for i in order: a header
\* name that occurs again overwrites the earlier entry
RowData(headers, cells) ==
    [h \in Range(headers) |->
        cells[CHOOSE i \in DOMAIN headers :
                 /\ headers[i] = h
                 /\ \A k \in DOMAIN headers : headers[k] = h => k <= i]]

\* if row_data and any(v for v in row_data.values())
RowKept(headers, cells) ==
    /\ Len(cells) = Len(headers)
    /\ \E h \in Range(headers) : RowData(headers, cells)[h] # ""

RECURSIVE TableRecords(_, _)
TableRecords(headers, rows) ==
    IF rows = <<>> THEN <<>>
    ELSE (IF RowKept(headers, Head(rows))
          THEN <<RowData(headers, Head(rows))>> ELSE <<>>)
         \o TableRecords(headers, Tail(rows))

extract_table_data(t) ==
    IF TableHeaders(t) = <<>> THEN <<>>
    ELSE TableRecords(TableHeaders(t), TableRowsSearched(t))

TableCalls == {[fn |-> "extract_table_data", arg |-> t] : t \in Tables}

ExtractTableData ==
    /\ call.fn = "extract_table_data"
    /\ ~ret.done
    /\ ret' = [done |-> TRUE, value |-> extract_table_data(call.arg)]
    /\ UNCHANGED <<call, store, job_args, api_pending, job_queue, store_faults,
                   pc, job_id, txn, exc, crawl, raised>>

\* -------------------------------------------------- extract_with_selectors
\* The selectors dict has the field keys title and price, in this order, and
\* may have a container key.
Fields == <<"title", "price">>
NoMatch == "<no match>"

\* An element soup.select(selectors['container']) matched: for each field
\* key, the text of what container.select_one finds, or NoMatch.
Elements == [Range(Fields) -> {NoMatch} \cup Texts]

\* What soup.select gives for each field key on the whole document.
DocMatches == [Range(Fields) -> SeqsUpTo(Texts, MaxMatches)]

SelectorArgs ==
    {[container |-> TRUE, containers |-> c] :
        c \in SeqsUpTo(Elements, MaxContainers)} \cup
    {[container |-> FALSE, matches |-> m] : m \in DocMatches}

\* record[key] = element.get_text(strip=True) for the keys that match
ContainerRecord(e) ==
    [k \in {f \in Range(Fields) : e[f] # NoMatch} |-> e[k]]

\* if record: results.append(record)
RECURSIVE ContainerRecords(_)
ContainerRecords(containers) ==
    IF containers = <<>> THEN <<>>
    ELSE (IF DOMAIN ContainerRecord(Head(containers)) # {}
          THEN <<ContainerRecord(Head(containers))>> ELSE <<>>)
         \o ContainerRecords(Tail(containers))

\* no container key, several matches of the first key: one record per index
IndexedRecords(m) ==
    [i \in 1..Len(m[Fields[1]]) |->
        [k \in {f \in Range(Fields) : i <= Len(m[f])} |-> m[k][i]]]

\* no container key, at most one match of the first key: one record, a key
\* with several matches holding the list of their texts
SingleRecord(m) ==
    [k \in {f \in Range(Fields) : m[f] # <<>>} |->
        IF Len(m[k]) = 1 THEN m[k][1] ELSE m[k]]

extract_with_selectors(a) ==
    IF a.container THEN ContainerRecords(a.containers)
    ELSE IF Len(a.matches[Fields[1]]) > 1 THEN IndexedRecords(a.matches)
    ELSE IF DOMAIN SingleRecord(a.matches) # {} THEN <<SingleRecord(a.matches)>>
    ELSE <<>>

SelectorCalls ==
    {[fn |-> "extract_with_selectors", arg |-> a] : a \in SelectorArgs}

ExtractWithSelectors ==
    /\ call.fn = "extract_with_selectors"
    /\ ~ret.done
    /\ ret' = [done |-> TRUE, value |-> extract_with_selectors(call.arg)]
    /\ UNCHANGED <<call, store, job_args, api_pending, job_queue, store_faults,
                   pc, job_id, txn, exc, crawl, raised>>

\* --------------------------------------------------- enhanced_auto_extract
\* A page in auto mode: its table elements, and a run of like elements, each
\* holding an h3 heading and a span of class price. The kind of the elements
\* is their tag and class.
Kinds == {"div.product-card", "article.product", "li.product", "div.card",
          "div.post"}
Headings == {"Pen", "Notebook"}
PriceTexts == {"$5", "$10.00"}
CardElems ==
    {e \in [heading : Headings, price : PriceTexts] :
        e.heading = "Pen" => e.price = "$5"}

\* The tables of such a page: one that yields a record and one that does not.
AutoTables ==
    {[thead |-> [present |-> TRUE, cells |-> <<"a">>], tbody |-> TRUE,
      rows |-> <<<<c>>>>] : c \in Texts}

AutoPages ==
    {[tables |-> t, kind |-> k, cards |-> c] :
        t \in SeqsUpTo(AutoTables, MaxTables),
        k \in Kinds,
        c \in SeqsUpTo(CardElems, MaxCards)}

\* for table in tables: table_data = extract_table_data(table); extend
RECURSIVE AllTableRecords(_)
AllTableRecords(tables) ==
    IF tables = <<>> THEN <<>>
    ELSE extract_table_data(Head(tables)) \o AllTableRecords(Tail(tables))

MinProducts == 1      \* found and len(found) > 1
MinCards == 2         \* found and len(found) > 2
TitleMinLen == 3      \* title and len(title) > 3
CardTextMinLen == 10  \* len(card_text) < 10: continue
FieldMinLen == 3      \* text and len(text) > 3

\* extract_product_listings: the elements one of product_selectors matches
\* more than once (the texts here are too short for the li fallback)
ProductElements(p) ==
    IF p.kind \in {"div.product-card", "article.product", "li.product"}
       /\ Len(p.cards) > MinProducts
    THEN p.cards ELSE <<>>

\* title from the heading if longer than 3; price from the .price element
ProductRecord(e) ==
    IF Len(e.heading) > TitleMinLen
    THEN [title |-> e.heading, price |-> e.price]
    ELSE [price |-> e.price]

extract_product_listings(p) ==
    [i \in DOMAIN ProductElements(p) |-> ProductRecord(ProductElements(p)[i])]

\* extract_article_listings: the first of article_selectors that matches
\* ('article', 'div.post', ...); a record needs a title
ArticleElements(p) ==
    IF p.kind \in {"article.product", "div.post"} THEN p.cards ELSE <<>>

extract_article_listings(p) ==
    [i \in DOMAIN ArticleElements(p) |-> [title |-> ArticleElements(p)[i].heading]]

\* extract_card_data: 'div.card' or 'div[class*="card"]' matching more than twice
CardElements(p) ==
    IF p.kind \in {"div.card", "div.product-card"} /\ Len(p.cards) > MinCards
    THEN p.cards ELSE <<>>

\* card.get_text(separator=' ', strip=True)
CardText(e) == e.heading \o " " \o e.price

\* title from the heading; the span's text is a field when longer than 3,
\* and it then matches the price pattern
CardRecord(e) ==
    IF Len(e.price) > FieldMinLen
    THEN [title |-> e.heading, price |-> e.price]
    ELSE [title |-> e.heading]

RECURSIVE CardRecords(_)
CardRecords(cards) ==
    IF cards = <<>> THEN <<>>
    ELSE (IF Len(CardText(Head(cards))) < CardTextMinLen THEN <<>>
          ELSE <<CardRecord(Head(cards))>>)
         \o CardRecords(Tail(cards))

extract_card_data(p) == CardRecords(CardElements(p))

\* extract_general_data: always holds the key full_text
GeneralRecord == [full_text |-> "text"]

Structured(p) ==
    AllTableRecords(p.tables) \o extract_product_listings(p)
    \o extract_article_listings(p) \o extract_card_data(p)

enhanced_auto_extract_first(p) ==
    IF AllTableRecords(p.tables) # <<>> THEN AllTableRecords(p.tables)
    ELSE IF extract_product_listings(p) # <<>> THEN extract_product_listings(p)
    ELSE IF extract_article_listings(p) # <<>> THEN extract_article_listings(p)
    ELSE IF extract_card_data(p) # <<>> THEN extract_card_data(p)
    ELSE <<GeneralRecord>>

\* results.extend(...) four times; if not results: append the general record
enhanced_auto_extract(p) ==
    IF Structured(p) # <<>> THEN Structured(p) ELSE <<GeneralRecord>>

AutoCalls == {[fn |-> "enhanced_auto_extract", arg |-> p] : p \in AutoPages}

EnhancedAutoExtract ==
    /\ call.fn = "enhanced_auto_extract"
    /\ ~ret.done
    /\ ret' = [done |-> TRUE, value |-> enhanced_auto_extract(call.arg)]
    /\ UNCHANGED <<call, store, job_args, api_pending, job_queue, store_faults,
                   pc, job_id, txn, exc, crawl, raised>>

\* ----------------------------------------------------------- specification
Next ==
    \/ \E j \in JobIds, r \in Requests : CreateScrapeJob(j, r.url, r.max_pages)
    \/ \E j \in JobIds : EnqueueJob(j)
    \/ ProcessJobStart
    \/ ScrapeUrlGate
    \/ CrawlStep
    \/ CrawlReturn
    \/ ExceptHandler

Spec == Init /\ [][Next]_vars
SpecStoreFaults == InitStoreFaults /\ [][Next]_vars

\* The extraction functions, each called once on an argument of its own.
Calls == TableCalls \cup SelectorCalls \cup AutoCalls

InitExtract == InitServer /\ store_faults = 0 /\ call \in Calls /\ ret = NoRet

NextExtract ==
    \/ ExtractTableData
    \/ ExtractWithSelectors
    \/ EnhancedAutoExtract

SpecExtract == InitExtract /\ [][NextExtract]_vars

\* The server crawling a site of pager pages.
NextPager ==
    \/ \E j \in JobIds, r \in Requests : CreateScrapeJob(j, r.url, r.max_pages)
    \/ \E j \in JobIds : EnqueueJob(j)
    \/ ProcessJobStart
    \/ ScrapeUrlGate
    \/ CrawlStepPager
    \/ CrawlReturn
    \/ ExceptHandler

\* The worker thread runs for as long as the process does: a step of
\* process_job or scrape_url that can be taken is taken.
WorkerPager ==
    \/ ProcessJobStart
    \/ ScrapeUrlGate
    \/ CrawlStepPager
    \/ CrawlReturn
    \/ ExceptHandler

SpecPager == Init /\ [][NextPager]_vars /\ WF_vars(WorkerPager)

\* The steps of the worker thread on the crawled site of Next.
Worker ==
    \/ ProcessJobStart
    \/ ScrapeUrlGate
    \/ CrawlStep
    \/ CrawlReturn
    \/ ExceptHandler

\* The worker thread is scheduled for as long as the process runs, with a
\* reliable store and with one whose statements can raise.
SpecWorker == Spec /\ WF_vars(Worker)
SpecStoreFaultsWorker == SpecStoreFaults /\ WF_vars(Worker)

\* ------------------------------------------------------------- properties
StatusPaths ==
    {<<>>, <<"queued">>, <<"queued", "running">>,
     <<"queued", "running", "completed">>, <<"queued", "running", "failed">>}

\* this step leaves process_job, by return or by raising into run
Leaving == job_id # 0 /\ job_id' = 0

\* C1 (as stated): the status values committed for a job follow exactly
\* queued -> running -> (completed | failed), whatever step of process_job
\* raises.
C1_StatusExactly ==
    \A j \in JobIds : hist[j] \in StatusPaths

\* C1 (amended): the status values committed for a job follow
\* queued -> running -> (completed | failed), or queued -> failed when the
\* store raised before the running status was committed; completed is never
\* entered without running, a terminal status is never left nor entered twice,
\* and the jobs table holds the last value committed.
C1_StatusMonotonic ==
    \A j \in JobIds :
        /\ hist[j] \in StatusPaths \cup {<<"queued", "failed">>}
        /\ hist[j] = <<"queued", "failed">> => jobs[j].error_message = StoreMsg
        /\ hist[j] # <<>> => jobs[j].status = hist[j][Len(hist[j])]
        /\ hist[j] = <<>> => jobs[j].status = "none"

C1_Witness ==
    \E j \in JobIds : hist[j] = <<"queued", "failed">>

\* C2: in every reachable state a job is completed if and only if a results
\* row exists for it, and the row of a completed job holds a non-empty record
\* list.
C2_CompletedIffResults ==
    \A j \in JobIds :
        /\ jobs[j].status = "completed" <=> results[j] # <<>>
        /\ results[j] # <<>> => Len(results[j]) = 1 /\ results[j][1]

\* C3: within one crawl no URL is passed to requests.get more than once.
C3_NoUrlFetchedTwice ==
    \A i, k \in DOMAIN fetched : i # k => fetched[i] # fetched[k]

C3_Witness ==
    Len(fetched) >= 3

\* C4 (as stated): the number of GET requests the crawl loop issues, failed
\* ones included, never exceeds the page budget.
C4_FetchesWithinBudget ==
    Len(fetched) <= max_pages

\* C4 (amended): the number of pages fetched and extracted without error (the
\* page counter) never exceeds the page budget; iterations that raised are not
\* counted.
C4_PagesWithinBudget ==
    /\ pages_scraped <= max_pages
    /\ pages_scraped = Len(fetched) - Cardinality(fetch_failed)

C4_Witness ==
    /\ pages_scraped = max_pages
    /\ fetch_failed # {}
    /\ Len(fetched) > max_pages

\* C5: a link that discovery appends to the frontier has the host of the page
\* it was found on, and every URL in the frontier, visited or fetched has the
\* host of the seed.
C5_SameHost ==
    /\ [](\A u \in Range(urls_to_visit) \cup visited_urls \cup Range(fetched) :
             Hostname(u) = Hostname(url))
    /\ [][pc = "crawl" /\ pc' = "crawl" =>
            \A link \in Range(urls_to_visit') \ Range(urls_to_visit) :
                Hostname(link) = Hostname(Head(urls_to_visit))]_vars

C5_Witness ==
    /\ pc = "crawl"
    /\ pages_scraped >= 1
    /\ urls_to_visit # <<>>

\* The address classes the address check is to refuse.
LoopbackAddrs == {"127.0.0.1"}
PrivateAddrs == {"10.0.0.1"}
LinkLocalAddrs == {"169.254.1.1"}

\* C6: is_safe_url denies when the hostname is missing, when resolution
\* fails, and when the address is loopback, private or link-local; it allows
\* only when resolution gives an address in none of those classes.
C6_AddressCheck ==
    safe # "unchecked" =>
        /\ safe \in {"allow", "deny"}
        /\ safe = "allow" <=>
              /\ Hostname(url) # ""
              /\ resolved \in Addresses
              /\ resolved \notin LoopbackAddrs \cup PrivateAddrs \cup LinkLocalAddrs

C6_Witness ==
    /\ safe = "deny"
    /\ resolved \in LoopbackAddrs

Denied == robots = "deny" \/ safe = "deny"

C8_WorkerKeepsConsuming ==
    /\ [](pc # "dead")
    /\ [](pc = "idle" /\ job_queue # <<>> => ENABLED ProcessJobStart)
    /\ [][Leaving => pc' = "idle"]_vars

C8_Witness ==
    /\ raised # {}
    /\ pc = "crawl"
    /\ job_id \notin raised

PageErrorStep ==
    /\ pc = "crawl"
    /\ Len(fetched') = Len(fetched) + 1
    /\ pages_scraped' = pages_scraped

\* C10: an iteration that raises leaves the accumulated records as they are
\* and goes on with the rest of the frontier; the records accumulated are what
\* the job stores when the crawl returns; and when the seed is the URL that
\* failed, nothing else is fetched and the job ends failed.
C10_PageErrorsRecoverable ==
    /\ [][PageErrorStep =>
            /\ pc' = "crawl"
            /\ all_results' = all_results
            /\ urls_to_visit' = Tail(urls_to_visit)]_vars
    /\ [][Leaving /\ pc = "crawl" =>
            /\ all_results # <<>> =>
                  /\ jobs'[job_id].status = "completed"
                  /\ results'[job_id] = <<all_results # <<>>>>
            /\ url \in fetch_failed =>
                  /\ fetched = <<url>>
                  /\ jobs'[job_id].status = "failed"]_vars

C10_Witness ==
    /\ pc = "crawl"
    /\ url \notin fetch_failed
    /\ Len(fetched) >= 2
    /\ fetched[Len(fetched)] \in fetch_failed
    /\ all_results # <<>>
    /\ urls_to_visit # <<>>

\* C11: find_pagination_links is called only after a page is counted while
\* the counter is below the budget; with budget 1 the crawl issues exactly one
\* GET, never calls find_pagination_links and never puts a discovered link
\* in the frontier, whatever the seed page offers.
C11_DiscoveryWithinBudget ==
    /\ [](pc = "crawl" =>
            /\ discoveries <= pages_scraped
            /\ discoveries < max_pages)
    /\ [](pc = "crawl" /\ max_pages = 1 =>
            /\ discoveries = 0
            /\ fetched \in {<<>>, <<url>>}
            /\ urls_to_visit = IF fetched = <<>> THEN <<url>> ELSE <<>>)
    /\ [][pc = "crawl" /\ pc' # "crawl" /\ max_pages = 1 =>
            fetched = <<url>>]_vars

C11_Witness ==
    /\ pc = "crawl"
    /\ max_pages = 1
    /\ advertised
    /\ pages_scraped = 1
    /\ fetched = <<url>>
    /\ urls_to_visit = <<>>

WellFormedRow(headers, cells) ==
    /\ Len(cells) = Len(headers)
    /\ \E i \in DOMAIN cells : cells[i] # ""

\* the records of the rows of a sequence that meet the condition, in order
WellFormedRecords(headers, rows) ==
    LET Meets(cells) == WellFormedRow(headers, cells)
        kept == SelectSeq(rows, Meets)
    IN [i \in DOMAIN kept |-> RowData(headers, kept[i])]

\* C13: for a table with a non-empty header list, the records returned are
\* those of the rows gone through that have as many cells as there are
\* headers and a non-empty cell, and of no other row.
C13_RowIffWellFormed ==
    (call.fn = "extract_table_data" /\ ret.done
     /\ TableHeaders(call.arg) # <<>>) =>
        ret.value = WellFormedRecords(TableHeaders(call.arg),
                                      TableRowsSearched(call.arg))

\* the rows of a table other than its header row
DataRows(t) ==
    IF t.thead.present THEN t.rows
    ELSE IF t.rows # <<>> THEN Tail(t.rows)
    ELSE <<>>

\* C14: a table whose header row, in a thead or as first row, has k distinct
\* names and whose n data rows are all well-formed yields n records, each
\* keyed by the header names.
C14_OneRecordPerDataRow ==
    (call.fn = "extract_table_data" /\ ret.done
     /\ TableHeaders(call.arg) # <<>>
     /\ Cardinality(Range(TableHeaders(call.arg))) = Len(TableHeaders(call.arg))
     /\ \A i \in DOMAIN DataRows(call.arg) :
            WellFormedRow(TableHeaders(call.arg), DataRows(call.arg)[i])) =>
        /\ Len(ret.value) = Len(DataRows(call.arg))
        /\ \A i \in DOMAIN ret.value :
              DOMAIN ret.value[i] = Range(TableHeaders(call.arg))

\* C15: with a container selector that matches N elements the result has N
\* records, the i-th made of the fields found in the i-th element, an element
\* in which no field selector matches included.
C15_OneRecordPerContainer ==
    (call.fn = "extract_with_selectors" /\ ret.done /\ call.arg.container) =>
        /\ Len(ret.value) = Len(call.arg.containers)
        /\ \A i \in DOMAIN ret.value :
              ret.value[i] = ContainerRecord(call.arg.containers[i])

\* C16: in auto mode the result is the records of the tables, of the product
\* listings, of the article listings and of the cards, in this order, each
\* heuristic contributing whatever the others found; the general record is
\* in the result exactly when the four found nothing.
C16_AutoConcatenation ==
    (call.fn = "enhanced_auto_extract" /\ ret.done) =>
        LET tables == AllTableRecords(call.arg.tables)
            listings == extract_product_listings(call.arg)
            articles == extract_article_listings(call.arg)
            cards == extract_card_data(call.arg)
            nothing == tables = <<>> /\ listings = <<>> /\ articles = <<>>
                       /\ cards = <<>>
        IN /\ ~nothing => ret.value = tables \o listings \o articles \o cards
           /\ nothing => ret.value = <<GeneralRecord>>
           /\ GeneralRecord \in Range(ret.value) <=> nothing

C16_Witness ==
    /\ call.fn = "enhanced_auto_extract"
    /\ ret.done
    /\ AllTableRecords(call.arg.tables) # <<>>
    /\ extract_product_listings(call.arg) # <<>>
    /\ extract_card_data(call.arg) # <<>>
    /\ Len(ret.value) > Len(extract_product_listings(call.arg))

\* C17: auto mode on a page of five product-card elements, each with a
\* heading and a price element, returns five records, each with the keys
\* title and price.
C17_FiveProductCards ==
    (call.fn = "enhanced_auto_extract" /\ ret.done
     /\ call.arg.tables = <<>>
     /\ call.arg.kind = "div.product-card"
     /\ Len(call.arg.cards) = 5) =>
        /\ Len(ret.value) = 5
        /\ \A i \in DOMAIN ret.value :
              {"title", "price"} \subseteq DOMAIN ret.value[i]

\* check_robots has run on a seed that names a host: rp.read() has requested
\* scheme://netloc/robots.txt from that host.
RobotsRequested == robots # "unchecked" /\ Hostname(url) # ""

\* C18: a seed whose host resolves to a private, loopback or link-local
\* address is sent no request at all, the retrieval of robots.txt included.
C18_NoRequestToPrivateHost ==
    (resolved # "fail" /\ resolved # "unasked"
     /\ (is_private(resolved) \/ is_loopback(resolved)
         \/ is_link_local(resolved))) =>
        /\ ~RobotsRequested
        /\ fetched = <<>>

\* no URL occurs twice in the sequence
NoDuplicates(s) == \A i, k \in DOMAIN s : s[i] = s[k] => i = k

\* C19: in the crawl loop the frontier holds no URL twice and none that is
\* visited, so every URL taken from the frontier is unvisited: each removal
\* from the frontier marks its head visited and is a fetch attempt.
C19_FrontierFresh ==
    /\ [](pc = "crawl" =>
            /\ NoDuplicates(urls_to_visit)
            /\ Range(urls_to_visit) \cap visited_urls = {})
    /\ [][pc = "crawl" /\ pc' = "crawl" /\ urls_to_visit' # urls_to_visit =>
            /\ Head(urls_to_visit) \notin visited_urls
            /\ visited_urls' = visited_urls \cup {Head(urls_to_visit)}
            /\ fetched' = Append(fetched, Head(urls_to_visit))]_vars

C19_Witness ==
    /\ pc = "crawl"
    /\ discoveries = 1
    /\ Len(urls_to_visit) = 2
    /\ url \in visited_urls

\* The iterations the crawl loop can still perform: the URLs in the frontier,
\* and the most that the discoveries still allowed by the budget can add.
Remaining ==
    Len(urls_to_visit) + PaginationCap * (max_pages - 1 - discoveries)

\* C20: discovery runs on at most max_pages - 1 pages and adds at most
\* PaginationCap links each time, so the loop performs at most
\* 1 + PaginationCap * (max_pages - 1) iterations; each iteration takes one
\* from the iterations that remain, and every crawl returns.
C20_CrawlTerminates ==
    /\ [](pc = "crawl" =>
            /\ max_pages >= 1
            /\ discoveries <= max_pages - 1
            /\ Len(fetched) + Remaining <= 1 + PaginationCap * (max_pages - 1)
            /\ Len(fetched) <= 1 + PaginationCap * (max_pages - 1))
    /\ [][pc = "crawl" /\ pc' = "crawl" /\ urls_to_visit' # urls_to_visit =>
            /\ Len(urls_to_visit') <=
                  Len(urls_to_visit) - 1 + PaginationCap * (discoveries' - discoveries)
            /\ Remaining' < Remaining]_vars
    /\ (pc = "crawl" ~> pc # "crawl")

C20_Witness ==
    /\ pc = "crawl"
    /\ discoveries = 1
    /\ Len(fetched) = 1 + PaginationCap
    /\ urls_to_visit = <<>>

Finished(j) == jobs[j].status \in {"completed", "failed"}

\* C21: an id is enqueued only after its row is committed with status queued,
\* so the id the worker dequeues has its row; every enqueued id is eventually
\* dequeued and its job eventually reaches completed or failed.
C21_EnqueuedJobsFinish ==
    /\ [](\A j \in api_pending \cup Range(job_queue) : jobs[j].status = "queued")
    /\ [][job_id' # job_id /\ job_id' # 0 => jobs[job_id'].status # "none"]_vars
    /\ \A j \in JobIds : (j \in Range(job_queue)) ~> (j \notin Range(job_queue))
    /\ \A j \in JobIds : (j \in Range(job_queue)) ~> Finished(j)

============================================================================
